---- MODULE Spec2Model ----
(***************************************************************************)
(* Model of src/src/spec/pkcs1.rs: the primality screens (Fermat, then     *)
(* Miller-Rabin), random prime sampling, the Euclidean gcd and extended    *)
(* gcd, and the key generation loops of Rsa::new / Rsa::init / Rsa::check  *)
(* with the raw primitives ep / dp.                                        *)
(***************************************************************************)
EXTENDS Integers, FiniteSets, Sequences, TLC

\* Largest modulus bit length handed to Rsa::new (the tests use 8).
MaxBits == 8
\* Largest candidate handed to is_prime / prime_test_of_miller directly.
MaxCand == 255
\* Largest argument handed to gcd_ex directly.
MaxArg == 12

VARIABLES
    pc,     \* position inside Rsa::new / Rsa::init
    bits,   \* argument of Rsa::new
    cand,   \* n of random_prime: the last candidate drawn
    p, q, n, l, e, d,   \* locals of Rsa::init, then the fields of Key
    self,   \* receiver of is_prime / prime_test_of_miller
    mst,    \* locals and position of prime_test_of_miller
    result, \* value returned by is_prime
    ga, gb, \* arguments of gcd_ex
    gres    \* value returned by gcd_ex

vars == <<pc, bits, cand, p, q, n, l, e, d, self, mst, result, ga, gb, gres>>

keyVars   == <<pc, bits, cand, p, q, n, l, e, d>>
primeVars == <<self, mst, result>>
gcdVars   == <<ga, gb, gres>>

----------------------------------------------------------------------------
(* The BigUint / BigInt substrate (num-bigint), as the code uses it.       *)

\* BigUint::one() << k
RECURSIVE shl1(_)
shl1(k) == IF k = 0 THEN 1 ELSE 2 * shl1(k - 1)

\* BigUint::bits(): the number of bits of the value, 0 for zero
RECURSIVE BitLen(_)
BitLen(x) == IF x = 0 THEN 0 ELSE 1 + BitLen(x \div 2)

\* BigUint::bit(0)
bit0(x) == x % 2 = 1

\* BigUint::modpow(exp, modulus): right-to-left square and multiply;
\* the result is reduced, so it is 0 when the modulus is 1
RECURSIVE modpow_loop(_, _, _, _)
modpow_loop(base, exp, m, acc) ==
    IF exp = 0 THEN acc
    ELSE modpow_loop((base * base) % m, exp \div 2, m,
                     IF bit0(exp) THEN (acc * base) % m ELSE acc)

modpow(base, exp, m) ==
    IF m = 1 THEN 0 ELSE modpow_loop(base % m, exp, m, 1)

\* BigInt `/` and `%` truncate toward zero; the remainder has the sign of
\* the dividend
tdiv(x, y) ==
    IF (x >= 0) = (y >= 0)
    THEN (IF x >= 0 THEN x ELSE -x) \div (IF y >= 0 THEN y ELSE -y)
    ELSE -((IF x >= 0 THEN x ELSE -x) \div (IF y >= 0 THEN y ELSE -y))

trem(x, y) == x - y * tdiv(x, y)

\* RandBigInt::gen_biguint_range(lbound, ubound): any value of the
\* half-open range
gen_biguint_range_incl(lbound, ubound) == lbound .. ubound

gen_biguint_range(lbound, ubound) == lbound .. (ubound - 1)

----------------------------------------------------------------------------
(* Prime for BigUint                                                       *)

\* prime_test_of_fermat: bases 2, 3, ... while b < 8 and b <= self
RECURSIVE fermat_loop(_, _)
fermat_loop(slf, b) ==
    IF b >= 8 \/ b > slf THEN TRUE
    ELSE IF modpow(b, slf - 1, slf) # 1 THEN FALSE
    ELSE fermat_loop(slf, b + 1)

prime_test_of_fermat(slf) == fermat_loop(slf, 2)

\* prime_test_of_miller, one step at a time.  The record holds the locals
\* b, n_minus_1, x, r, s and the position: "outer" is the head of the loop
\* over the bases, "inner" the head of the while loop.
MillerIdle ==
    [pc |-> "idle", b |-> 0, n_minus_1 |-> 0, x |-> 0, r |-> 0, s |-> 0]

MillerRet == {"ret_true", "ret_false_even", "ret_false_sqrt", "ret_false_r"}

miller_enter(slf) ==
    IF slf % 2 = 0
    THEN [MillerIdle EXCEPT !.pc = "ret_false_even"]
    ELSE [MillerIdle EXCEPT !.pc = "outer", !.b = 2, !.n_minus_1 = slf - 1]

miller_step(slf, st) ==
    IF st.pc = "outer"
    THEN IF st.b >= 4 \/ st.b >= st.n_minus_1
         THEN [st EXCEPT !.pc = "ret_true"]
         ELSE [st EXCEPT !.pc = "inner", !.x = st.b, !.r = 1]
    ELSE IF st.n_minus_1 # 0
         THEN LET r1 == IF bit0(st.n_minus_1) THEN (st.r * st.x) % slf ELSE st.r
                  s1 == st.x
                  x1 == (st.x * st.x) % slf
              IN  IF x1 = 1 /\ ~(s1 = 1 \/ s1 = st.n_minus_1)
                  THEN [st EXCEPT !.pc = "ret_false_sqrt",
                                  !.r = r1, !.s = s1, !.x = x1]
                  ELSE [st EXCEPT !.r = r1, !.s = s1, !.x = x1,
                                  !.n_minus_1 = st.n_minus_1 \div 2]
         ELSE IF st.r # 1
              THEN [st EXCEPT !.pc = "ret_false_r"]
              ELSE [st EXCEPT !.pc = "outer", !.b = st.b + 1]

RECURSIVE miller_run(_, _)
miller_run(slf, st) ==
    IF st.pc \in MillerRet THEN st ELSE miller_run(slf, miller_step(slf, st))

prime_test_of_miller(slf) ==
    miller_run(slf, miller_enter(slf)).pc = "ret_true"

is_prime(slf) ==
    IF bit0(slf) = FALSE THEN FALSE
    ELSE IF ~prime_test_of_fermat(slf) THEN FALSE
    ELSE IF ~prime_test_of_miller(slf) THEN FALSE
    ELSE TRUE

\* the bounds of random_prime
lbound(b) == shl1((b \div 2) - 1)

ubound(b) == shl1((b \div 2) + 1)

\* is_prime on every candidate random_prime can draw, computed once
is_prime_memo == [v \in 0 .. ubound(MaxBits) |-> is_prime(v)]

----------------------------------------------------------------------------
(* Rsa                                                                     *)

\* Rsa::gcd: plain Euclidean recursion
RECURSIVE gcd(_, _)
gcd(a, b) ==
    LET max == IF a > b THEN a ELSE b
        min == IF a > b THEN b ELSE a
    IN  IF min = 0 THEN max ELSE gcd(min, max % min)

\* Rsa::gcd_ex: the while loop over (d, r, u, v, s, t)
RECURSIVE gcd_ex_loop(_)
gcd_ex_loop(st) ==
    IF st.r = 0 THEN st
    ELSE LET qq == tdiv(st.d, st.r)
         IN  gcd_ex_loop([d |-> st.r, r |-> trem(st.d, st.r),
                          u |-> st.s, s |-> st.u - qq * st.s,
                          v |-> st.t, t |-> st.v - qq * st.t])

gcd_ex_enter(a, b) ==
    [d |-> IF a > b THEN a ELSE b, r |-> IF a > b THEN b ELSE a,
     u |-> 1, v |-> 0, s |-> 0, t |-> 1]

gcd_ex_unswapped(a, b) ==
    LET st == gcd_ex_loop(gcd_ex_enter(a, b))
    IN  <<st.d, st.u, st.v>>

gcd_ex(a, b) ==
    LET st == gcd_ex_loop(gcd_ex_enter(a, b))
    IN  IF a > b THEN <<st.d, st.u, st.v>> ELSE <<st.d, st.v, st.u>>

\* Rsa::calculate_d: the coefficient of e, reduced by n, made non-negative
calculate_d(ll, nn, ee) ==
    LET d0 == gcd_ex(ll, ee)[3]
        d1 == trem(d0, nn)
    IN  IF d1 < 0 THEN d1 + nn ELSE d1

\* lambda(n) of PKCS #1 as init and check compute it
lambda_wrong(pp, qq) == (pp - 1) * qq

lambda(pp, qq) == (pp - 1) * (qq - 1)

\* the exit test of the (p, q) loop of init, once p # q and n = p * q
init_pq_break_at_least(b, nn) == b <= BitLen(nn)

init_pq_break(b, nn) == b = BitLen(nn)

\* Rsa::ep and Rsa::dp on a key k = [p, q, n, e, d]
ep(k, m) == modpow(m, k.e, k.n)

dp_wrong_modulus(k, c) == modpow(c, k.d, k.p)

dp(k, c) == modpow(c, k.d, k.n)

\* Rsa::check: e*d mod l, then the probes 0 .. 8
RECURSIVE check_loop(_, _)
check_loop(k, i_m) ==
    IF i_m > 8 THEN TRUE
    ELSE LET o_c == ep(k, i_m)
             o_m == dp(k, o_c)
         IN  IF i_m # o_m THEN FALSE ELSE check_loop(k, i_m + 1)

check(k) ==
    IF (k.e * k.d) % lambda(k.p, k.q) # 1 THEN FALSE ELSE check_loop(k, 0)

Key == [p |-> p, q |-> q, n |-> n, e |-> e, d |-> d]

----------------------------------------------------------------------------
(* Rsa::new(bits): the loops of new, init, random_prime and calculate_e    *)

KeyIdle ==
    /\ pc = "idle" /\ bits = 0 /\ cand = 0
    /\ p = 0 /\ q = 0 /\ n = 0 /\ l = 0 /\ e = 0 /\ d = 0

PrimeIdle == self = 0 /\ mst = MillerIdle /\ result = "none"

GcdIdle == ga = 0 /\ gb = 0 /\ gres = <<>>

Init ==
    /\ pc = "random_prime_p"
    /\ bits \in 2 .. MaxBits
    /\ cand = 0
    /\ p = 0 /\ q = 0 /\ n = 0 /\ l = 0 /\ e = 0 /\ d = 0
    /\ PrimeIdle
    /\ GcdIdle

\* one iteration of the loop of random_prime, called for p
RandomPrimeP(v) ==
    /\ pc = "random_prime_p"
    /\ v \in gen_biguint_range(lbound(bits), ubound(bits))
    /\ cand' = v
    /\ IF is_prime_memo[v] = TRUE
       THEN p' = v /\ pc' = "random_prime_q"
       ELSE UNCHANGED <<p, pc>>
    /\ UNCHANGED <<bits, q, n, l, e, d, primeVars, gcdVars>>

\* one iteration of the loop of random_prime, called for q; when it
\* returns, the rest of the iteration of the (p, q) loop of init
RandomPrimeQ(v) ==
    /\ pc = "random_prime_q"
    /\ v \in gen_biguint_range(lbound(bits), ubound(bits))
    /\ cand' = v
    /\ IF is_prime_memo[v] = TRUE
       THEN /\ q' = v
            /\ IF p = v
               THEN pc' = "random_prime_p" /\ UNCHANGED <<n, l>>
               ELSE /\ n' = p * v
                    /\ IF init_pq_break(bits, p * v)
                       THEN pc' = "calculate_e" /\ l' = lambda(p, v)
                       ELSE pc' = "random_prime_p" /\ UNCHANGED l
       ELSE UNCHANGED <<q, n, l, pc>>
    /\ UNCHANGED <<bits, p, e, d, primeVars, gcdVars>>

\* one iteration of the loop of calculate_e; when it returns, calculate_d
\* and the exit test of the (e, d) loop of init
CalculateED(u) ==
    /\ pc = "calculate_e"
    /\ u \in gen_biguint_range(1, n)
    /\ IF gcd(l, u) = 1
       THEN /\ e' = u
            /\ d' = calculate_d(l, n, u)
            /\ pc' = IF (u * d') % l = 1 THEN "check" ELSE "calculate_e"
       ELSE UNCHANGED <<e, d, pc>>
    /\ UNCHANGED <<bits, cand, p, q, n, l, primeVars, gcdVars>>

\* init has returned a key: the test of the loop of new
NewCheck ==
    /\ pc = "check"
    /\ IF check(Key)
       THEN pc' = "returned" /\ UNCHANGED <<cand, p, q, n, l, e, d>>
       ELSE /\ pc' = "random_prime_p"
            /\ cand' = 0
            /\ p' = 0 /\ q' = 0 /\ n' = 0 /\ l' = 0 /\ e' = 0 /\ d' = 0
    /\ UNCHANGED <<bits, primeVars, gcdVars>>

Next ==
    \/ \E v \in 0 .. ubound(MaxBits) : RandomPrimeP(v)
    \/ \E v \in 0 .. ubound(MaxBits) : RandomPrimeQ(v)
    \/ \E u \in 1 .. shl1(MaxBits) : CalculateED(u)
    \/ NewCheck

Spec == Init /\ [][Next]_vars

\* Fair random sampling: every retry loop keeps drawing, and a draw that
\* leaves a retry loop, or that lets the enclosing loop be left, and that
\* is possible again and again, happens.
CanPair(v) ==
    \E w \in gen_biguint_range(lbound(bits), ubound(bits)) :
        is_prime_memo[w] = TRUE /\ v # w /\ init_pq_break(bits, v * w)

Fairness ==
    /\ WF_vars(\E v \in 0 .. ubound(MaxBits) : RandomPrimeP(v))
    /\ WF_vars(\E v \in 0 .. ubound(MaxBits) : RandomPrimeQ(v))
    /\ WF_vars(\E u \in 1 .. shl1(MaxBits) : CalculateED(u))
    /\ SF_vars(\E v \in 0 .. ubound(MaxBits) :
                   RandomPrimeP(v) /\ pc' = "random_prime_q" /\ CanPair(v))
    /\ SF_vars(\E v \in 0 .. ubound(MaxBits) :
                   RandomPrimeQ(v) /\ pc' = "random_prime_p")
    /\ SF_vars(\E v \in 0 .. ubound(MaxBits) :
                   RandomPrimeQ(v) /\ pc' = "calculate_e")
    /\ SF_vars(\E u \in 1 .. shl1(MaxBits) : CalculateED(u) /\ pc' = "check")
    /\ WF_vars(NewCheck)

FairSpec == Init /\ [][Next]_vars /\ Fairness

----------------------------------------------------------------------------
(* is_prime and prime_test_of_miller applied to every candidate of a       *)
(* bounded range                                                           *)

InitPrime ==
    /\ KeyIdle
    /\ GcdIdle
    /\ self \in 0 .. MaxCand
    /\ mst = MillerIdle
    /\ result = "none"

\* a call of is_prime(self)
IsPrimeCall ==
    /\ result = "none"
    /\ result' = IF is_prime(self) THEN "true" ELSE "false"
    /\ UNCHANGED <<self, mst, keyVars, gcdVars>>

\* a call of prime_test_of_miller(self): up to the head of the outer loop
MillerCall ==
    /\ mst.pc = "idle"
    /\ mst' = miller_enter(self)
    /\ UNCHANGED <<self, result, keyVars, gcdVars>>

\* the next step of the call
MillerStep ==
    /\ mst.pc \in {"outer", "inner"}
    /\ mst' = miller_step(self, mst)
    /\ UNCHANGED <<self, result, keyVars, gcdVars>>

NextPrime == IsPrimeCall \/ MillerCall \/ MillerStep

PrimeSpec == InitPrime /\ [][NextPrime]_vars

----------------------------------------------------------------------------
(* gcd_ex applied to every pair of a bounded set                           *)

InitGcd ==
    /\ KeyIdle
    /\ PrimeIdle
    /\ ga \in 0 .. MaxArg
    /\ gb \in 0 .. MaxArg
    /\ gres = <<>>

\* a call of gcd_ex(ga, gb)
GcdExCall ==
    /\ gres = <<>>
    /\ gres' = gcd_ex(ga, gb)
    /\ UNCHANGED <<ga, gb, keyVars, primeVars>>

NextGcd == GcdExCall

GcdSpec == InitGcd /\ [][NextGcd]_vars

----------------------------------------------------------------------------
(* Reference notions the properties are stated with                        *)

IsPrimeNumber(x) == x > 1 /\ \A k \in 2 .. (x - 1) : x % k # 0

CommonDivisors(a, b) == {k \in 1 .. (a + b) : a % k = 0 /\ b % k = 0}

GreatestCommonDivisor(a, b) ==
    IF a = 0 /\ b = 0 THEN 0
    ELSE CHOOSE g \in CommonDivisors(a, b) : \A h \in CommonDivisors(a, b) : h <= g

----------------------------------------------------------------------------
(* Properties                                                              *)

\* C1: for every key returned by Rsa::new and every m with 0 <= m < n,
\* dp(ep(m)) = m: the round trip holds on the whole residue domain, not
\* only on the probes 0 .. 8 of check.
RoundTripLaw ==
    pc = "returned" => \A m \in 0 .. (n - 1) : dp(Key, ep(Key, m)) = m

\* a returned 8-bit key that moves a message beyond the probes
RoundTripWitness ==
    /\ pc = "returned"
    /\ bits = 8
    /\ \E m \in 9 .. (n - 1) : ep(Key, m) # m /\ dp(Key, ep(Key, m)) = m

\* C2: for every key returned by Rsa::new, e*d mod (p-1)*(q-1) = 1.
PrivateExponentInverts ==
    pc = "returned" => (e * d) % ((p - 1) * (q - 1)) = 1

\* a returned key whose exponents are not the trivial pair (1, 1)
PrivateExponentWitness ==
    pc = "returned" /\ e > 1 /\ d > 1 /\ e * d > (p - 1) * (q - 1)

\* C3: for every key returned by Rsa::new(bits), n = p*q, p # q, and n has
\* exactly bits bits: 2^(bits-1) <= n < 2^bits.
ModulusWellFormed ==
    pc = "returned" =>
        /\ n = p * q
        /\ p # q
        /\ 2 ^ (bits - 1) <= n
        /\ n < 2 ^ bits

\* a returned key of Rsa::new(8), with 128 <= n <= 255
ModulusWitness ==
    pc = "returned" /\ bits = 8 /\ n = p * q /\ 128 <= n /\ n <= 255

\* C4: for every key returned by Rsa::new, 1 <= e < p*q and
\* gcd(e, (p-1)*(q-1)) = 1 with the Euclidean Rsa::gcd.
PublicExponentCoprime ==
    pc = "returned" =>
        /\ 1 <= e
        /\ e < p * q
        /\ gcd(e, (p - 1) * (q - 1)) = 1

\* a returned key whose public exponent lies between lambda and n
PublicExponentWitness ==
    pc = "returned" /\ e > (p - 1) * (q - 1) /\ e < n

\* C5: key generation is total: for every even bits in {4, 6, 8}, under
\* fair random sampling, Rsa::new(bits) eventually returns a key.
KeyGenerationTotal ==
    (bits \in {4, 6, 8}) ~> (pc = "returned")

\* C6: is_prime returns true for each of 2, 3, 5, 7, 11, 13.
IsPrimeAcceptsSmallPrimes ==
    (result # "none" /\ self \in {2, 3, 5, 7, 11, 13}) => result = "true"

\* C7: is_prime accepts only primes: on the range 0 .. MaxCand,
\* is_prime(self) = true implies that self is a prime number.
IsPrimeAcceptsOnlyPrimes ==
    result = "true" => IsPrimeNumber(self)

\* C8: gcd_ex(a, b) returns (g, x, y) with g = gcd(a, b) and a*x + b*y = g,
\* x belonging to the first argument and y to the second, whichever
\* argument is larger.
BezoutIdentity ==
    gres # <<>> =>
        /\ gres[1] = GreatestCommonDivisor(ga, gb)
        /\ ga * gres[2] + gb * gres[3] = gres[1]

\* a call with 0 < a < b, coprime, where both coefficients matter
BezoutWitness ==
    /\ gres # <<>>
    /\ 0 < ga /\ ga < gb
    /\ gres[1] = 1
    /\ gres[2] # 0 /\ gres[3] # 0
    /\ gres[2] # gres[3]

\* C9: for every (p, q) that init accepts and every e with 1 <= e < n and
\* gcd(e, l) = 1, d = calculate_d(l, n, e) satisfies 0 <= d < l and
\* e*d mod l = 1.
CalculateDIsReducedInverse ==
    (pc \in {"calculate_e", "check", "returned"} /\ e # 0) =>
        /\ 0 <= d
        /\ d < l
        /\ (e * d) % l = 1

\* C10: the squaring loop of prime_test_of_miller rejects only at a value s
\* with s*s mod n = 1, s # 1 and s # n - 1, n - 1 being the candidate
\* minus one; so the screen returns true for every odd prime.
MillerRejectsOnlyNontrivialRoot ==
    /\ mst.pc = "ret_false_sqrt" =>
           /\ (mst.s * mst.s) % self = 1
           /\ mst.s # 1
           /\ mst.s # self - 1
    /\ (mst.pc \in MillerRet /\ self >= 3 /\ IsPrimeNumber(self)) =>
           mst.pc = "ret_true"

====
